---- MODULE Spec2Model ----
(***************************************************************************)
(* A model of the provider binding generator of                            *)
(* crates/provider-wit-bindgen-macro/src/lib.rs: the generation run of     *)
(* generate() (import stubs, lattice methods, dispatch arms, subject       *)
(* insertions) followed by the run time behaviour of the code it emits     *)
(* (incoming_wrpc_invocations_by_subject and dispatch_wrpc_dynamic).       *)
(*                                                                         *)
(* Strings are sequences of one-character strings, so that the case        *)
(* conversions and the format strings are computed character by character. *)
(***************************************************************************)
EXTENDS Integers, Sequences, FiniteSets, TLC

(***************************************************************************)
(* Characters and strings                                                  *)
(***************************************************************************)

Lowers == <<"a","b","c","d","e","f","g","h","i","j","k","l","m",
            "n","o","p","q","r","s","t","u","v","w","x","y","z">>

Uppers == <<"A","B","C","D","E","F","G","H","I","J","K","L","M",
            "N","O","P","Q","R","S","T","U","V","W","X","Y","Z">>

Digits == {"0","1","2","3","4","5","6","7","8","9"}

Range(s) == {s[i] : i \in DOMAIN s}

IsLower(c) == c \in Range(Lowers)

IsUpper(c) == c \in Range(Uppers)

IsAlphanumeric(c) == IsLower(c) \/ IsUpper(c) \/ c \in Digits

IndexIn(c, s) == CHOOSE i \in DOMAIN s : s[i] = c

ToLowerChar(c) == IF IsUpper(c) THEN Lowers[IndexIn(c, Uppers)] ELSE c

ToUpperChar(c) == IF IsLower(c) THEN Uppers[IndexIn(c, Lowers)] ELSE c

ToLowercase(w) == [i \in DOMAIN w |-> ToLowerChar(w[i])]

\* heck's capitalize: the first character upper-cased, the rest lower-cased
Capitalize(w) ==
    [i \in DOMAIN w |-> IF i = 1 THEN ToUpperChar(w[i]) ELSE ToLowerChar(w[i])]

RECURSIVE Concat(_)
Concat(ss) == IF ss = <<>> THEN <<>> ELSE Head(ss) \o Concat(Tail(ss))

RECURSIVE JoinWith(_, _)
JoinWith(ss, sep) ==
    IF ss = <<>> THEN <<>>
    ELSE IF Len(ss) = 1 THEN ss[1]
    ELSE ss[1] \o sep \o JoinWith(Tail(ss), sep)

\* str::split(pat): the pieces between the characters matching the pattern,
\* empty pieces included.  pat is "." (the character) or "nonalnum" (the
\* closure |c| !c.is_alphanumeric()).
IsSep(c, pat) == IF pat = "." THEN c = "." ELSE ~IsAlphanumeric(c)

RECURSIVE SplitAcc(_, _, _, _)
SplitAcc(s, i, cur, pat) ==
    IF i > Len(s) THEN <<cur>>
    ELSE IF IsSep(s[i], pat) THEN <<cur>> \o SplitAcc(s, i + 1, <<>>, pat)
    ELSE SplitAcc(s, i + 1, Append(cur, s[i]), pat)

SplitDot(s) == SplitAcc(s, 1, <<>>, ".")

(***************************************************************************)
(* heck's word segmentation (transform): the string is split at every      *)
(* non-alphanumeric character, and each piece is split again where a       *)
(* lowercase character is followed by an uppercase one, and before the     *)
(* last uppercase character of an uppercase run followed by a lowercase    *)
(* one.  mode is "Boundary", "Lowercase" or "Uppercase".                   *)
(***************************************************************************)
RECURSIVE SegWords(_, _, _, _)
SegWords(w, i, init, mode) ==
    IF i > Len(w) THEN <<>>
    ELSE IF i = Len(w) THEN <<SubSeq(w, init, Len(w))>>
    ELSE LET c         == w[i]
             next      == w[i + 1]
             next_mode == IF IsLower(c) THEN "Lowercase"
                          ELSE IF IsUpper(c) THEN "Uppercase"
                          ELSE mode
         IN  IF next_mode = "Lowercase" /\ IsUpper(next)
             THEN <<SubSeq(w, init, i)>> \o SegWords(w, i + 1, i + 1, "Boundary")
             ELSE IF mode = "Uppercase" /\ IsUpper(c) /\ IsLower(next)
             THEN <<SubSeq(w, init, i - 1)>> \o SegWords(w, i + 1, i, "Boundary")
             ELSE SegWords(w, i + 1, init, next_mode)

RECURSIVE WordsOfPieces(_)
WordsOfPieces(pieces) ==
    IF pieces = <<>> THEN <<>>
    ELSE SegWords(Head(pieces), 1, 1, "Boundary") \o WordsOfPieces(Tail(pieces))

HeckWords(s) == WordsOfPieces(SplitAcc(s, 1, <<>>, "nonalnum"))

MapSeq(ss, F(_)) == [i \in DOMAIN ss |-> F(ss[i])]

to_kebab_case(s) == JoinWith(MapSeq(HeckWords(s), ToLowercase), <<"-">>)

to_snake_case(s) == JoinWith(MapSeq(HeckWords(s), ToLowercase), <<"_">>)

to_upper_camel_case(s) == Concat(MapSeq(HeckWords(s), Capitalize))

(***************************************************************************)
(* Names used by the interface graphs the model generates from             *)
(***************************************************************************)

s_wasmcloud == <<"w","a","s","m","c","l","o","u","d">>

s_keyvalue == <<"k","e","y","v","a","l","u","e">>

s_key_value == <<"k","e","y","-","v","a","l","u","e">>

s_get == <<"g","e","t">>

s_put == <<"p","u","t">>

s_bus == <<"b","u","s">>

s_lattice == <<"l","a","t","t","i","c","e">>

s_set_link == <<"s","e","t","-","l","i","n","k">>

s_wasi == <<"w","a","s","i">>

s_io == <<"i","o">>

s_poll == <<"p","o","l","l">>

s_test == <<"t","e","s","t">>

s_foo == <<"f","o","o">>

s_baz == <<"b","a","z">>

s_get_URL == <<"g","e","t","-","U","R","L">>

s_inline == <<"i","n","l","i","n","e">>

s_types == <<"t","y","p","e","s">>

s_run == <<"r","u","n">>

s_qux == <<"q","u","x">>

s_find == <<"f","i","n","d">>

s_handle == <<"h","a","n","d","l","e">>

s_key == <<"k","e","y">>

s_value == <<"v","a","l","u","e">>

s_args == <<"a","r","g","s">>

s_name == <<"n","a","m","e">>

s_id == <<"i","d">>

s_test_map == <<"t","e","s","t","-","m","a","p">>

s_operation == <<"o","p","e","r","a","t","i","o","n">>

s_default == <<"d","e","f","a","u","l","t">>

s_component == <<"k","v","1">>

s_version == <<"0",".","0",".","1">>

s_scenario_a_operation == <<"w","a","s","m","c","l","o","u","d",":","k","e","y","v","a","l","u","e","/","k","e","y","-","v","a","l","u","e",".","g","e","t">>

s_nosuch == <<"w","a","s","m","c","l","o","u","d",":","k","e","y","v","a","l","u","e","/","k","e","y","-","v","a","l","u","e",".","n","o","s","u","c","h">>

(***************************************************************************)
(* The input of a generation run: the resolved interface graph (Resolve)   *)
(* and the macro configuration (ProviderBindgenConfig).                    *)
(*                                                                         *)
(* An interface has an optional package (namespace, name), a name, record  *)
(* declarations and an ordered list of functions; a function has a name,   *)
(* an ordered list of (name, type) parameters and an optional result.      *)
(* Types are the Rust type names the bindings use.                         *)
(***************************************************************************)

NoPackage == <<>>

NoType == "()"

WitifiedMap == "Vec<(String,String)>"

NativeMap == "HashMap<String,String>"

Param(n, t) == [name |-> n, ty |-> t]

Func(n, ps, r) == [name |-> n, params |-> ps, result |-> r]

\* the interfaces of the graphs of Spec and SpecServe, by interface id;
\* types uses the record put-args of key-value under its own name
KnownInterfaces == <<
    [ package   |-> <<s_wasmcloud, s_keyvalue>>,
      name      |-> s_key_value,
      records   |-> <<[name |-> "PutArgs",
                       fields |-> <<Param(s_key, "String"), Param(s_value, "String")>>],
                      [name |-> "Outcome", fields |-> <<Param(s_id, "u32")>>]>>,
      variants  |-> <<>>,
      aliases   |-> <<[name |-> "Key", target |-> "String"]>>,
      functions |-> << Func(s_get, <<Param(s_key, "String")>>, "Result<String,String>"),
                       Func(s_put, <<Param(s_args, "PutArgs")>>, NoType) >> ],
    [ package   |-> <<s_test, s_foo>>,
      name      |-> s_baz,
      records   |-> <<>>,
      variants  |-> <<[name |-> "Outcome", cases |-> <<"Done", "Failed">>]>>,
      aliases   |-> <<>>,
      functions |-> << Func(s_get_URL, <<Param(s_test_map, WitifiedMap)>>, NoType),
                       Func(s_get, <<Param(s_key, "String"), Param(s_operation, "u32")>>, "bool"),
                       Func(s_run, <<>>, "u32") >> ],
    [ package   |-> <<s_wasmcloud, s_bus>>,
      name      |-> s_lattice,
      records   |-> <<>>,
      variants  |-> <<>>,
      aliases   |-> <<>>,
      functions |-> << Func(s_set_link, <<Param(s_name, "String")>>, NoType) >> ],
    [ package   |-> <<s_wasi, s_io>>,
      name      |-> s_poll,
      records   |-> <<>>,
      variants  |-> <<>>,
      aliases   |-> <<>>,
      functions |-> << Func(s_get, <<Param(s_id, "u32")>>, "bool") >> ],
    [ package   |-> NoPackage,
      name      |-> s_inline,
      records   |-> <<>>,
      variants  |-> <<>>,
      aliases   |-> <<>>,
      functions |-> << Func(s_run, <<>>, NoType) >> ],
    [ package   |-> NoPackage,
      name      |-> s_types,
      records   |-> <<>>,
      variants  |-> <<>>,
      aliases   |-> <<[name |-> "PutArgs", target |-> "PutArgs"]>>,
      functions |-> <<>> ],
    [ package   |-> <<s_test, s_foo>>,
      name      |-> s_qux,
      records   |-> <<>>,
      variants  |-> <<>>,
      aliases   |-> <<>>,
      functions |-> << Func(s_find, <<Param(s_handle, "Handle")>>, "bool") >> ]
  >>

IfaceIds == DOMAIN KnownInterfaces

\* bounds of the generated inputs: the keys of a world's import map and
\* of its export map
MaxImports == 1

MaxExports == 2

\* the strictly increasing sequences over ids of length at most n: the key
\* lists of a world's import and export maps (a key occurs once)
RECURSIVE IncSeqs(_, _)
IncSeqs(ids, n) ==
    IF n = 0 THEN {<<>>}
    ELSE LET shorter == IncSeqs(ids, n - 1)
         IN  shorter \cup
             {Append(s, i) : s \in {t \in shorter : Len(t) = n - 1},
                             i \in ids} 

IsIncreasing(s) == \A i \in 1..(Len(s) - 1) : s[i] < s[i + 1]

KeyLists(n) == {s \in IncSeqs(IfaceIds, n) : IsIncreasing(s)}

\* a world names, as an import or an export, the interface whose types an
\* interface of it uses: key-value wherever types is
Worlds ==
    {w \in [imports : KeyLists(MaxImports), exports : KeyLists(MaxExports)] :
        6 \in Range(w.imports) \cup Range(w.exports)
           => 1 \in Range(w.imports) \cup Range(w.exports)}

RECURSIVE SeqsUpTo(_, _)
SeqsUpTo(S, n) ==
    IF n = 0 THEN {<<>>}
    ELSE LET shorter == SeqsUpTo(S, n - 1)
         IN  shorter \cup
             {Append(s, x) : s \in {t \in shorter : Len(t) = n - 1}, x \in S}

\* the interface graphs with one world
Resolves == {[interfaces |-> KnownInterfaces, worlds |-> <<w>>] : w \in Worlds}

\* the most worlds of an interface graph
MaxWorlds == 2

\* the interface graphs of up to MaxWorlds worlds that export nothing and
\* import key-value of wasmcloud:keyvalue, lattice of wasmcloud:bus or poll
\* of wasi:io; a Resolve holds the worlds of every package it has loaded
ImportResolves ==
    { [interfaces |-> KnownInterfaces, worlds |-> ws] :
        ws \in SeqsUpTo({w \in Worlds : /\ w.exports = <<>>
                                        /\ Range(w.imports) \subseteq {1, 3, 4}},
                        MaxWorlds) \ {<<>>} }

(***************************************************************************)
(* Interface graphs with generated function names: one exported interface  *)
(* of package test:foo with two functions whose names are WIT identifiers  *)
(* (words of lowercase or of uppercase characters and digits, joined by    *)
(* "-"), different from each other when case is ignored, as the names of   *)
(* one interface are.                                                      *)
(***************************************************************************)

Words == { <<"a","1">>, <<"b">>, <<"B">> }

\* the most words of a generated name
MaxNameWords == 2

RECURSIVE WitNames(_)
WitNames(n) ==
    IF n = 1 THEN Words
    ELSE WitNames(n - 1) \cup
         {name \o <<"-">> \o w : name \in WitNames(n - 1), w \in Words}

s_XML_api == <<"X","M","L","-","a","p","i">>

NamedInterface(f1, f2) ==
    [ package   |-> <<s_test, s_foo>>,
      name      |-> s_XML_api,
      records   |-> <<>>,
      variants  |-> <<>>,
      aliases   |-> <<>>,
      functions |-> << Func(f1, <<Param(s_key, "String")>>, NoType),
                       Func(f2, <<>>, "u32") >> ]

NamedResolves ==
    { [ interfaces |-> <<NamedInterface(f[1], f[2])>>,
        worlds     |-> <<[imports |-> <<>>, exports |-> <<1>>]>> ] :
      f \in {g \in WitNames(MaxNameWords) \X WitNames(MaxNameWords) :
               ToLowercase(g[1]) # ToLowercase(g[2])} }

(***************************************************************************)
(* The ProviderBindgenConfig values, by the one field that generate() and *)
(* the translation read: whether WIT-ified maps are replaced.              *)
(***************************************************************************)
Configs == { [replace_witified_maps |-> m] : m \in BOOLEAN }

(***************************************************************************)
(* State                                                                   *)
(***************************************************************************)
VARIABLES
    resolve,        \* the Resolve: its worlds, each with import and export keys
    cfg,            \* the ProviderBindgenConfig
    pc,             \* where generate() is: "imports", "methods",
                    \* "arms", "wrpc", "emit", "emitted" or "aborted"
    cursor,         \* (world, import) position of the import loop
    imported_iface_invocation_methods,  \* stubs of the InvocationHandler
    export_trait_methods,   \* scraped: interface path -> trait methods
    struct_lookup,          \* scraped record catalog: name -> fields
    serde_extended_enums,   \* scraped variant catalog: name -> cases
    type_lookup,            \* scraped alias catalog: name -> aliased type
    methods_todo,           \* interface paths the method loop has not visited
    methods_by_iface,       \* WitTraitName -> ExportedLatticeMethods
    arms_todo,              \* trait names the arm loop has not visited
    iface_tokens,           \* generated capability traits
    interface_dispatch_wrpc_match_arms, \* arms of the dispatch match
    output_types,           \* the emitted types, structs and enums
    insertion_lines,        \* generated mapping.insert statements
    subject_table,          \* run time: the table the last call returned
    calls,                  \* run time: the dispatch calls in progress
    map_call,               \* run time: a map argument on its way through
    translation             \* one call of translate_export_fn_for_lattice
                            \* decode and encode

in_vars == <<resolve, cfg>>

scraped_vars == <<export_trait_methods, struct_lookup, serde_extended_enums,
                  type_lookup>>

rt_vars == <<subject_table, calls>>

vars == <<resolve, cfg, pc, cursor, imported_iface_invocation_methods,
          export_trait_methods, struct_lookup, serde_extended_enums,
          type_lookup, methods_todo, methods_by_iface, arms_todo,
          iface_tokens, interface_dispatch_wrpc_match_arms, output_types,
          insertion_lines, subject_table, calls, map_call, translation>>

\* the interfaces of the Resolve, by interface id
Interfaces == resolve.interfaces

EmptyMap == [x \in {} |-> <<>>]

\* m with key k bound to v (HashMap::insert: an earlier binding is replaced)
MapInsert(m, k, v) == [x \in (DOMAIN m) \cup {k} |-> IF x = k THEN v ELSE m[x]]

RECURSIVE SeqOfSet(_)
SeqOfSet(S) ==
    IF S = {} THEN <<>>
    ELSE LET x == CHOOSE y \in S : \A z \in S : y <= z
         IN  <<x>> \o SeqOfSet(S \ {x})

(***************************************************************************)
(* The package policy                                                      *)
(***************************************************************************)

\* matches!((namespace, name), ("wasmcloud", "bus") | ("wasi", "io"))
is_ignored_invocation_handler_pkg(pkg) ==
    pkg = <<s_wasmcloud, s_bus>> \/ pkg = <<s_wasi, s_io>>

\* iface.package.map(..).is_some_and(is_ignored_invocation_handler_pkg)
IsIgnoredIface(iface) ==
    /\ iface.package # NoPackage
    /\ is_ignored_invocation_handler_pkg(iface.package)

(***************************************************************************)
(* The import loop of generate(): one InvocationHandler method per         *)
(* function of every imported interface whose package is not ignored.      *)
(***************************************************************************)

\* translate_import_fn_for_lattice: the stub of one imported function
translate_import_fn_for_lattice(id, fn) ==
    [ iface  |-> id,
      func   |-> to_snake_case(fn.name),
      args   |-> [i \in DOMAIN fn.params |->
                    Param(to_snake_case(fn.params[i].name), fn.params[i].ty)],
      result |-> fn.result ]

ImportStubs(id) ==
    IF IsIgnoredIface(Interfaces[id]) THEN <<>>
    ELSE [i \in DOMAIN Interfaces[id].functions |->
            translate_import_fn_for_lattice(id, Interfaces[id].functions[i])]

\* the cursor moved past the worlds that have no import left
RECURSIVE SkipWorlds(_, _)
SkipWorlds(ws, c) ==
    IF c[1] > Len(ws) THEN c
    ELSE IF c[2] > Len(ws[c[1]].imports) THEN SkipWorlds(ws, <<c[1] + 1, 1>>)
    ELSE c

ProcessImport ==
    /\ pc = "imports"
    /\ cursor[1] <= Len(resolve.worlds)
    /\ LET id == resolve.worlds[cursor[1]].imports[cursor[2]]
       IN  imported_iface_invocation_methods' =
               imported_iface_invocation_methods \o ImportStubs(id)
    /\ cursor' = SkipWorlds(resolve.worlds, <<cursor[1], cursor[2] + 1>>)
    /\ UNCHANGED <<in_vars, map_call, translation, scraped_vars, rt_vars, pc, methods_todo,
                   methods_by_iface, arms_todo, iface_tokens,
                   interface_dispatch_wrpc_match_arms,
                   output_types, insertion_lines>>

(***************************************************************************)
(* The scrape of the base bindings (WitBindgenOutputVisitor): the exported *)
(* interfaces by module path, and the record catalog, keyed by name.       *)
(***************************************************************************)

ExportedIds(r) == UNION {Range(r.worlds[w].exports) : w \in DOMAIN r.worlds}

ImportedIds(r) == UNION {Range(r.worlds[w].imports) : w \in DOMAIN r.worlds}

\* the module path of an interface: its package and name in snake case,
\* joined by "."
InterfacePath(iface) ==
    IF iface.package = NoPackage THEN to_snake_case(iface.name)
    ELSE JoinWith(<<to_snake_case(iface.package[1]),
                    to_snake_case(iface.package[2]),
                    to_snake_case(iface.name)>>, <<".">>)

\* a function as the trait method the base bindings declare for it
TraitMethod(fn) ==
    [ ident  |-> to_snake_case(fn.name),
      params |-> [i \in DOMAIN fn.params |->
                    Param(to_snake_case(fn.params[i].name), fn.params[i].ty)],
      result |-> fn.result ]

\* the interfaces whose method declarations are scraped: the base
\* bindings declare a trait for every exported interface, and the
\* extraction is structural, whatever the package
ScrapedIds(r) == ExportedIds(r)

ScrapeExportTraitMethods(r) ==
    [ p \in {InterfacePath(r.interfaces[id]) : id \in ScrapedIds(r)} |->
        LET id == CHOOSE i \in ScrapedIds(r) : InterfacePath(r.interfaces[i]) = p
        IN  [k \in DOMAIN r.interfaces[id].functions |->
               TraitMethod(r.interfaces[id].functions[k])] ]

DeclaredRecords(r) ==
    UNION {Range(r.interfaces[id].records) : id \in ExportedIds(r) \cup ImportedIds(r)}

ScrapeStructs(r) ==
    [ n \in {rec.name : rec \in DeclaredRecords(r)} |->
        LET rec == CHOOSE x \in DeclaredRecords(r) : x.name = n
        IN  [i \in DOMAIN rec.fields |->
               Param(to_snake_case(rec.fields[i].name), rec.fields[i].ty)] ]

DeclaredVariants(r) ==
    UNION {Range(r.interfaces[id].variants) : id \in ExportedIds(r) \cup ImportedIds(r)}

ScrapeEnums(r) ==
    [ n \in {v.name : v \in DeclaredVariants(r)} |->
        (CHOOSE x \in DeclaredVariants(r) : x.name = n).cases ]

DeclaredAliases(r) ==
    UNION {Range(r.interfaces[id].aliases) : id \in ExportedIds(r) \cup ImportedIds(r)}

\* the alias catalog: the type items by name, each with its ident
ScrapeTypes(r) ==
    [ n \in {a.name : a \in DeclaredAliases(r)} |->
        [ ident  |-> n,
          target |-> (CHOOSE x \in DeclaredAliases(r) : x.name = n).target ] ]

\* the error of a Result
Bail == [ok |-> FALSE]

Ok(v) == [ok |-> TRUE, val |-> v]

\* what expand_wasmtime_component(wit_bindgen_cfg) may return: the base
\* bindings of the Resolve, or an error of the base generator
ExpandResults(r) == {Ok(r), Bail}

\* what the visitor extracts from the file it is given.  An error of the
\* base generator is turned into compile_error! tokens
\* (unwrap_or_else(syn::Error::into_compile_error)), which parse as a file
\* that declares no trait and no type: the visitor extracts nothing, and
\* the file is not part of the output
Visited(bindgen_tokens) ==
    IF bindgen_tokens.ok
    THEN [ export_trait_methods  |-> ScrapeExportTraitMethods(bindgen_tokens.val),
           serde_extended_structs |-> ScrapeStructs(bindgen_tokens.val),
           serde_extended_enums  |-> ScrapeEnums(bindgen_tokens.val),
           type_lookup           |-> ScrapeTypes(bindgen_tokens.val) ]
    ELSE [ export_trait_methods  |-> EmptyMap,
           serde_extended_structs |-> EmptyMap,
           serde_extended_enums  |-> EmptyMap,
           type_lookup           |-> EmptyMap ]

\* the import loop has ended: the base bindings are expanded, or the
\* compile error of the failed expansion takes their place, and the file
\* is parsed and visited; the run goes on in either case
VisitFile ==
    /\ pc = "imports"
    /\ cursor[1] > Len(resolve.worlds)
    /\ \E bindgen_tokens \in ExpandResults(resolve) :
          LET visitor == Visited(bindgen_tokens)
          IN  /\ export_trait_methods' = visitor.export_trait_methods
              /\ struct_lookup' = visitor.serde_extended_structs
              /\ serde_extended_enums' = visitor.serde_extended_enums
              /\ type_lookup' = visitor.type_lookup
              /\ methods_todo' = DOMAIN visitor.export_trait_methods
    /\ pc' = "methods"
    /\ UNCHANGED <<in_vars, map_call, translation, rt_vars, cursor, imported_iface_invocation_methods,
                   methods_by_iface, arms_todo, iface_tokens,
                   interface_dispatch_wrpc_match_arms,
                   output_types, insertion_lines>>

(***************************************************************************)
(* translate_export_fn_for_lattice: one trait method as an                 *)
(* ExportedLatticeMethod.  A sole parameter whose type is a key of the     *)
(* record catalog is replaced by the record's fields; with                 *)
(* replace_witified_maps a list of pairs becomes a map.                    *)
(***************************************************************************)

TranslateType(bindgen_cfg, ty) ==
    IF bindgen_cfg.replace_witified_maps /\ ty = WitifiedMap THEN NativeMap ELSE ty

TranslateArgs(bindgen_cfg, ps) ==
    [i \in DOMAIN ps |-> Param(ps[i].name, TranslateType(bindgen_cfg, ps[i].ty))]

\* the type names that need no catalog: the types of the language and of
\* its standard library
BuiltinTypes ==
    {"String", "u32", "bool", "Result<String,String>", WitifiedMap, NativeMap, NoType}

\* a referenced type name resolves when it is built in or a key of a
\* catalog handed to the translation
Resolvable(ty, struct_lookup_, type_lookup_) ==
    \/ ty \in BuiltinTypes
    \/ ty \in DOMAIN struct_lookup_
    \/ ty \in DOMAIN type_lookup_

\* the type names a trait method refers to
ReferencedTypes(trait_method) ==
    {trait_method.params[i].ty : i \in DOMAIN trait_method.params}
    \cup {trait_method.result}

\* the arguments of the lattice method: the fields of the record when the
\* sole parameter's type is a key of the record catalog, the parameters
\* otherwise
InvocationArgs(bindgen_cfg, trait_method, struct_lookup_) ==
    IF /\ Len(trait_method.params) = 1
       /\ trait_method.params[1].ty \in DOMAIN struct_lookup_
    THEN TranslateArgs(bindgen_cfg, struct_lookup_[trait_method.params[1].ty])
    ELSE TranslateArgs(bindgen_cfg, trait_method.params)

\* a translation that names the operation after the method it translates
translate_export_fn_for_lattice_OwnName(bindgen_cfg, operation_name, trait_method, struct_lookup_, type_lookup_) ==
    IF \E ty \in ReferencedTypes(trait_method) :
          ~Resolvable(ty, struct_lookup_, type_lookup_)
    THEN Bail
    ELSE Ok([ operation_name    |-> trait_method.ident,
              func_name         |-> trait_method.ident,
              invocation_args   |-> InvocationArgs(bindgen_cfg, trait_method,
                                                   struct_lookup_),
              invocation_return |-> trait_method.result ])

\* the Result of the translation: the lattice method, or the failure on a
\* type name that resolves in no catalog
translate_export_fn_for_lattice(bindgen_cfg, operation_name, trait_method, struct_lookup_, type_lookup_) ==
    IF \E ty \in ReferencedTypes(trait_method) :
          ~Resolvable(ty, struct_lookup_, type_lookup_)
    THEN Bail
    ELSE Ok([ operation_name    |-> operation_name,
              func_name         |-> trait_method.ident,
              invocation_args   |-> InvocationArgs(bindgen_cfg, trait_method,
                                                   struct_lookup_),
              invocation_return |-> trait_method.result ])

(***************************************************************************)
(* One call of translate_export_fn_for_lattice on its own, as the test     *)
(* parse_witified_map_in_fn makes it: a configuration, an operation name,  *)
(* a trait method and the two catalogs.                                    *)
(***************************************************************************)

\* LitStr::new("wasmcloud:test/test.foo", ..)
s_test_operation == <<"w","a","s","m","c","l","o","u","d",":","t","e","s","t","/","t","e","s","t",".","f","o","o">>

\* the operation names handed to the translation
TranslateOperations == {s_test_operation, s_scenario_a_operation}

\* the types of a sole parameter: of the language, a list of pairs, the
\* names of a record, of an alias and of a variant, and a name that no
\* catalog holds
TranslateParamTypes ==
    {"String", "u32", WitifiedMap, "PutArgs", "Key", "Outcome", "Handle"}

\* the trait methods handed to the translation: fn baz with no parameter,
\* with one parameter of each type and with two parameters, with and
\* without a return type
TranslateMethods ==
    { [ident |-> s_baz, params |-> ps, result |-> r] :
        ps \in {<<>>, <<Param(s_key, "String"), Param(s_value, "PutArgs")>>}
               \cup {<<Param(to_snake_case(s_test_map), ty)>> : ty \in TranslateParamTypes},
        r \in {NoType, "bool"} }

\* the record catalogs handed to the translation
TranslateStructs ==
    { EmptyMap,
      MapInsert(EmptyMap, "PutArgs",
                <<Param(s_key, "String"), Param(s_value, "String")>>),
      MapInsert(MapInsert(EmptyMap, "PutArgs",
                          <<Param(s_key, "String"), Param(s_value, "String")>>),
                "Outcome", <<Param(s_id, "u32")>>) }

\* the alias catalogs handed to the translation; the bindings of an
\* interface that uses a variant of another interface declare it as an
\* alias of the same name
TranslateTypes ==
    { EmptyMap,
      MapInsert(EmptyMap, "Key", [ident |-> "Key", target |-> "String"]),
      MapInsert(MapInsert(EmptyMap, "Key", [ident |-> "Key", target |-> "String"]),
                "Outcome", [ident |-> "Outcome", target |-> "Outcome"]) }

NoTranslation == [pc |-> "none"]

\* let lm = translate_export_fn_for_lattice(&bindgen_cfg, operation_name,
\*                                           &trait_fn, &structs, &types)
Translate ==
    /\ translation.pc = "given"
    /\ translation' =
          [translation EXCEPT
              !.pc = "done",
              !.out = translate_export_fn_for_lattice(
                          cfg, translation.operation_name,
                          translation.trait_method, struct_lookup, type_lookup)]
    /\ UNCHANGED <<in_vars, map_call, scraped_vars, pc, cursor, methods_todo,
                   imported_iface_invocation_methods, methods_by_iface, arms_todo,
                   iface_tokens, interface_dispatch_wrpc_match_arms,
                   output_types, insertion_lines, subject_table, calls>>

(***************************************************************************)
(* build_lattice_methods_by_wit_interface                                  *)
(***************************************************************************)

\* format!("{}:{}/{}.{}", ..)
FormatOperation(ns, pkg, iface, fn) ==
    ns \o <<":">> \o pkg \o <<"/">> \o iface \o <<".">> \o fn

\* the operation name with the function name left as the Rust identifier
WitOperation_RawFn(wit_iface_name, ident) ==
    LET segs == SplitDot(wit_iface_name)
    IN  IF Len(segs) = 3
        THEN Ok(FormatOperation(to_kebab_case(segs[1]), to_kebab_case(segs[2]),
                                to_kebab_case(segs[3]), ident))
        ELSE Bail

\* the operation name with the function segment left out of the format
WitOperation_NoFn(wit_iface_name, ident) ==
    LET segs == SplitDot(wit_iface_name)
    IN  IF Len(segs) = 3
        THEN Ok(to_kebab_case(segs[1]) \o <<":">> \o to_kebab_case(segs[2])
                \o <<"/">> \o to_kebab_case(segs[3]))
        ELSE Bail

\* the fully-qualified WIT operation name of a trait method, or the bail
\* on a path that does not have three components
WitOperation(wit_iface_name, ident) ==
    LET segs == SplitDot(wit_iface_name)
    IN  IF Len(segs) = 3
        THEN Ok(FormatOperation(to_kebab_case(segs[1]), to_kebab_case(segs[2]),
                                to_kebab_case(segs[3]), to_kebab_case(ident)))
        ELSE Bail

\* the interface path in upper camel case, without delimiter
WitIfaceUpperCamel(wit_iface_name) ==
    Concat(MapSeq(SplitDot(wit_iface_name), to_upper_camel_case))

\* the translation of one trait method (the path has three components)
LatticeMethodFor(bindgen_cfg, wit_iface_name, trait_method, struct_lookup_, type_lookup_) ==
    translate_export_fn_for_lattice(
        bindgen_cfg,
        WitOperation(wit_iface_name, trait_method.ident).val,
        trait_method, struct_lookup_, type_lookup_)

\* methods_by_name.entry(key).or_default().push(lm)
PushMethod(m, key, lm) ==
    MapInsert(m, key, IF key \in DOMAIN m THEN Append(m[key], lm) ELSE <<lm>>)

\* the inner loop over the trait methods of one interface: the bail on
\* the path, the `?` on the translation, the push
RECURSIVE PushMethods(_, _, _, _, _, _)
PushMethods(m, bindgen_cfg, wit_iface_name, funcs, struct_lookup_, type_lookup_) ==
    IF funcs = <<>> THEN Ok(m)
    ELSE IF ~WitOperation(wit_iface_name, Head(funcs).ident).ok THEN Bail
    ELSE LET lattice_method ==
                 LatticeMethodFor(bindgen_cfg, wit_iface_name, Head(funcs),
                                  struct_lookup_, type_lookup_)
         IN  IF ~lattice_method.ok THEN Bail
             ELSE PushMethods(
                      PushMethod(m, WitIfaceUpperCamel(wit_iface_name),
                                 lattice_method.val),
                      bindgen_cfg, wit_iface_name, Tail(funcs),
                      struct_lookup_, type_lookup_)

\* one iteration of the outer loop, over an interface in the map's order
BuildLatticeMethods ==
    /\ pc = "methods"
    /\ \E p \in methods_todo :
         LET r == PushMethods(methods_by_iface, cfg, p,
                              export_trait_methods[p], struct_lookup, type_lookup)
         IN  /\ r.ok
             /\ methods_by_iface' = r.val
             /\ methods_todo' = methods_todo \ {p}
    /\ UNCHANGED <<in_vars, map_call, translation, scraped_vars, rt_vars, pc, cursor,
                   imported_iface_invocation_methods, arms_todo, iface_tokens,
                   interface_dispatch_wrpc_match_arms,
                   output_types, insertion_lines>>

\* bail!("unexpected interface path, expected 3 components") or the
\* failure of a translation: the expect in generate() panics and nothing
\* is emitted
BuildLatticeMethodsBail ==
    /\ pc = "methods"
    /\ \E p \in methods_todo :
         ~PushMethods(methods_by_iface, cfg, p,
                      export_trait_methods[p], struct_lookup, type_lookup).ok
    /\ pc' = "aborted"
    /\ UNCHANGED <<in_vars, map_call, translation, scraped_vars, rt_vars, cursor, methods_todo,
                   imported_iface_invocation_methods, methods_by_iface,
                   arms_todo, iface_tokens,
                   interface_dispatch_wrpc_match_arms,
                   output_types, insertion_lines>>

\* Ok(methods_by_name)
BuildLatticeMethodsDone ==
    /\ pc = "methods"
    /\ methods_todo = {}
    /\ arms_todo' = DOMAIN methods_by_iface
    /\ pc' = "arms"
    /\ UNCHANGED <<in_vars, map_call, translation, scraped_vars, rt_vars, cursor, methods_todo,
                   imported_iface_invocation_methods, methods_by_iface,
                   iface_tokens, interface_dispatch_wrpc_match_arms,
                   output_types, insertion_lines>>

(***************************************************************************)
(* The loop of generate() over methods_by_iface: the capability trait of   *)
(* each interface and one match arm per lattice method.                    *)
(***************************************************************************)

s_ctx == <<"c","t","x">>

\* the arguments with only the first one kept
InvocationArgsWithTypes_First(lm) ==
    IF lm.invocation_args = <<>> THEN <<>> ELSE <<lm.invocation_args[1]>>

\* invocation_args_with_types: "ident: ty" for every invocation argument
InvocationArgsWithTypes(lm) ==
    [i \in DOMAIN lm.invocation_args |->
        Param(lm.invocation_args[i].name, lm.invocation_args[i].ty)]

\* async fn #func_names(&self, ctx: Context, #invocation_args_with_types)
\*     #invocation_returns;
TraitFn(lm) ==
    [ func_name |-> lm.func_name,
      args      |-> <<Param(s_ctx, "Context")>> \o InvocationArgsWithTypes(lm),
      returns   |-> lm.invocation_return ]

\* the arm of one lattice method: the literal it matches, the decoding
\* statements in order, and the call of the handler method
MatchArm(wit_iface, lm) ==
    [ operation_name |-> lm.operation_name,
      wit_iface      |-> wit_iface,
      func_name      |-> lm.func_name,
      input_decoding |-> lm.invocation_args,
      post_self_args |-> <<s_ctx>> \o
                         [i \in DOMAIN lm.invocation_args |->
                            lm.invocation_args[i].name] ]

BuildArms ==
    /\ pc = "arms"
    /\ \E t \in arms_todo :
         /\ iface_tokens' = Append(iface_tokens,
                [ name    |-> t,
                  methods |-> [i \in DOMAIN methods_by_iface[t] |->
                                 TraitFn(methods_by_iface[t][i])] ])
         /\ interface_dispatch_wrpc_match_arms' =
                interface_dispatch_wrpc_match_arms \o
                [i \in DOMAIN methods_by_iface[t] |->
                    MatchArm(t, methods_by_iface[t][i])]
         /\ arms_todo' = arms_todo \ {t}
    /\ UNCHANGED <<in_vars, map_call, translation, scraped_vars, rt_vars, pc, cursor, methods_todo,
                   imported_iface_invocation_methods, methods_by_iface,
                   output_types, insertion_lines>>

(***************************************************************************)
(* The map re-encoding: with replace_witified_maps a list of pairs is      *)
(* decoded into a map, and a map is encoded as a list of its pairs.        *)
(***************************************************************************)

MapKeys == {"k1", "k2", "k3"}

MapValues == {"x", "y"}

\* the most pairs of a list on the wire
MaxPairs == 2

\* the lists of pairs on the wire, with and without a repeated key
PairLists == SeqsUpTo(MapKeys \X MapValues, MaxPairs)

NoMapCall == [pc |-> "idle", wire |-> <<>>, native |-> EmptyMap, out |-> <<>>]

\* the map in which every key has the value of the first pair of the list
DecodePairs_FirstValue(pairs) ==
    [k \in {pairs[i][1] : i \in DOMAIN pairs} |-> pairs[1][2]]

\* collecting a list of pairs into a map: a later pair replaces an earlier
\* one with the same key
DecodePairs(pairs) ==
    [k \in {pairs[i][1] : i \in DOMAIN pairs} |->
        LET last == CHOOSE i \in DOMAIN pairs :
                       /\ pairs[i][1] = k
                       /\ \A j \in DOMAIN pairs : pairs[j][1] = k => j <= i
        IN  pairs[last][2]]

\* the lists a map is encoded as: its pairs, each once, in any order
EncodePairs(native) ==
    LET n == Cardinality(DOMAIN native)
    IN  { [i \in 1..n |-> <<order[i], native[order[i]]>>] :
            order \in {o \in [1..n -> DOMAIN native] :
                         \A i, j \in 1..n : i # j => o[i] # o[j]} }

\* the argument type is translated: the list of pairs is received as a map
DecodeMap ==
    /\ map_call.pc = "received"
    /\ TranslateType(cfg, WitifiedMap) = NativeMap
    /\ map_call' = [map_call EXCEPT !.pc = "decoded",
                                     !.native = DecodePairs(map_call.wire)]
    /\ UNCHANGED <<in_vars, scraped_vars, pc, cursor, methods_todo,
                   imported_iface_invocation_methods, methods_by_iface, arms_todo,
                   iface_tokens, interface_dispatch_wrpc_match_arms,
                   output_types, insertion_lines, subject_table, calls,
                   translation>>

\* the inverse at the encode site
EncodeMap ==
    /\ map_call.pc = "decoded"
    /\ \E out \in EncodePairs(map_call.native) :
          map_call' = [map_call EXCEPT !.pc = "encoded", !.out = out]
    /\ UNCHANGED <<in_vars, scraped_vars, pc, cursor, methods_todo,
                   imported_iface_invocation_methods, methods_by_iface, arms_todo,
                   iface_tokens, interface_dispatch_wrpc_match_arms,
                   output_types, insertion_lines, subject_table, calls,
                   translation>>

(***************************************************************************)
(* The emitted types of generate(): the aliases that are not named as a    *)
(* scraped struct or enum, then every struct, then every enum.  The       *)
(* catalogs are HashMaps: iter() visits each entry once, in an order that  *)
(* differs from build to build.                                            *)
(***************************************************************************)

\* the orders in which a HashMap with key set S may be walked: the
\* sequences that hold each key once
Keys(S) ==
    {o \in [1..Cardinality(S) -> S] : \A k \in S : \E i \in DOMAIN o : o[i] = k}

NoTypes == [types |-> <<>>, structs |-> <<>>, enums |-> <<>>]

\* the entries of type_lookup that filter_map keeps: those whose item is
\* named as no scraped struct and no scraped enum
KeptTypes(types, structs, enums) ==
    {m \in DOMAIN types : ~(\/ types[m].ident \in DOMAIN structs
                            \/ types[m].ident \in DOMAIN enums)}

\* types: filter_map over type_lookup, one item per kept entry, in the
\* order of the walk; the results are the lists a build may produce
Types(types, structs, enums) ==
    { [i \in DOMAIN o |-> types[o[i]].ident] :
        o \in Keys(KeptTypes(types, structs, enums)) }

\* the type lists a build may emit
OutputTypes(types, structs, enums) ==
    [ types   : Types(types, structs, enums),
      structs : Keys(DOMAIN structs),
      enums   : Keys(DOMAIN enums) ]

(***************************************************************************)
(* build_wrpc_impls: one mapping.insert statement per WrpcExport           *)
(***************************************************************************)

\* DynamicFunction: the structural description of a function's shape
DynamicFunction(fn) ==
    [ params |-> [i \in DOMAIN fn.params |-> fn.params[i].ty],
      result |-> fn.result ]

WrpcExportsOf(id) ==
    LET iface == Interfaces[id]
    IN  IF iface.package = NoPackage \/ IsIgnoredIface(iface) THEN <<>>
        ELSE [k \in DOMAIN iface.functions |->
                [ wit_ns       |-> to_kebab_case(iface.package[1]),
                  wit_pkg      |-> to_kebab_case(iface.package[2]),
                  wit_iface    |-> to_kebab_case(iface.name),
                  wit_iface_fn |-> to_kebab_case(iface.functions[k].name),
                  types        |-> << to_upper_camel_case(iface.name),
                                      iface.functions[k].name,
                                      DynamicFunction(iface.functions[k]) >> ]]

\* generate_wrpc_nats_subject_to_fn_mapping: the exported functions
generate_wrpc_nats_subject_to_fn_mapping(r) ==
    Concat(MapSeq(SeqOfSet(ExportedIds(r)), WrpcExportsOf))

\* the insertion with the world key name and the function name exchanged
InsertionLine_SwappedTypes(e) ==
    [ wit_ns         |-> e.wit_ns,
      wit_pkg        |-> e.wit_pkg,
      wit_iface      |-> e.wit_iface,
      wit_iface_fn   |-> e.wit_iface_fn,
      world_key_name |-> e.types[2],
      function_name  |-> e.types[1],
      dynamic_fn     |-> e.types[3] ]

InsertionLine(e) ==
    [ wit_ns         |-> e.wit_ns,
      wit_pkg        |-> e.wit_pkg,
      wit_iface      |-> e.wit_iface,
      wit_iface_fn   |-> e.wit_iface_fn,
      world_key_name |-> e.types[1],
      function_name  |-> e.types[2],
      dynamic_fn     |-> e.types[3] ]

\* what generate_wrpc_nats_subject_to_fn_mapping(resolve) may return: the
\* list of WrpcExports, or an error, on grounds its caller does not see
WrpcMappingResults(r) == {Ok(generate_wrpc_nats_subject_to_fn_mapping(r)), Bail}

\* the arm loop has ended and the subject mapping returns an error:
\* .context(..)? in build_wrpc_impls, the expect in generate() panics; the
\* type lists built before the call are locals of generate() that the panic
\* drops, and nothing is emitted
BuildWrpcImplsFails ==
    /\ pc = "arms"
    /\ arms_todo = {}
    /\ \E mapping \in WrpcMappingResults(resolve) : ~mapping.ok
    /\ pc' = "aborted"
    /\ UNCHANGED <<in_vars, map_call, translation, scraped_vars, rt_vars, cursor, methods_todo,
                   imported_iface_invocation_methods, methods_by_iface,
                   arms_todo, iface_tokens, interface_dispatch_wrpc_match_arms,
                   output_types, insertion_lines>>

\* the arm loop has ended: the type lists and the insertions are built and
\* the output emitted
BuildWrpcImpls ==
    /\ pc = "arms"
    /\ arms_todo = {}
    /\ output_types' \in OutputTypes(type_lookup, struct_lookup, serde_extended_enums)
    /\ \E mapping \in WrpcMappingResults(resolve) :
          /\ mapping.ok
          /\ insertion_lines' = MapSeq(mapping.val, InsertionLine)
    /\ pc' = "emitted"
    /\ UNCHANGED <<in_vars, map_call, translation, scraped_vars, rt_vars, cursor, methods_todo,
                   imported_iface_invocation_methods, methods_by_iface,
                   arms_todo, iface_tokens, interface_dispatch_wrpc_match_arms>>

(***************************************************************************)
(* The emitted incoming_wrpc_invocations_by_subject                        *)
(***************************************************************************)

s_wrpc == <<"w","r","p","c">>

\* the subject with the function segment left out of the format
SubjectOf_NoFn(lattice_name, component_id, wrpc_version, line) ==
    lattice_name \o <<".">> \o component_id \o <<".">> \o s_wrpc \o <<".">>
        \o wrpc_version \o <<".">> \o line.wit_ns \o <<":">> \o line.wit_pkg
        \o <<"/">> \o line.wit_iface

\* format!("{lattice_name}.{component_id}.wrpc.{wrpc_version}.{}:{}/{}.{}", ..)
SubjectOf(lattice_name, component_id, wrpc_version, line) ==
    lattice_name \o <<".">> \o component_id \o <<".">> \o s_wrpc \o <<".">>
        \o wrpc_version \o <<".">> \o line.wit_ns \o <<":">> \o line.wit_pkg
        \o <<"/">> \o line.wit_iface \o <<".">> \o line.wit_iface_fn

\* the insertions run in order on the map
RECURSIVE RunInsertions(_, _, _, _, _)
RunInsertions(mapping, lines, lattice_name, component_id, wrpc_version) ==
    IF lines = <<>> THEN mapping
    ELSE RunInsertions(
             MapInsert(mapping,
                       SubjectOf(lattice_name, component_id, wrpc_version, Head(lines)),
                       << Head(lines).world_key_name, Head(lines).function_name,
                          Head(lines).dynamic_fn >>),
             Tail(lines), lattice_name, component_id, wrpc_version)

s_prod_eu == <<"p","r","o","d",".","e","u">>

LatticeNames == {s_default, s_prod_eu}

ComponentIds == {s_component}

WrpcVersions == {s_version}

NoTable == [built |-> FALSE]

IncomingWrpcInvocationsBySubject ==
    /\ pc = "emitted"
    /\ \E l \in LatticeNames, c \in ComponentIds, v \in WrpcVersions :
         subject_table' =
             [ built        |-> TRUE,
               lattice_name |-> l,
               component_id |-> c,
               wrpc_version |-> v,
               mapping      |-> RunInsertions(EmptyMap, insertion_lines, l, c, v) ]
    /\ pc' = "serving"
    /\ UNCHANGED <<in_vars, map_call, translation, scraped_vars, calls, cursor, methods_todo,
                   imported_iface_invocation_methods, methods_by_iface,
                   arms_todo, iface_tokens, interface_dispatch_wrpc_match_arms,
                   output_types, insertion_lines>>

(***************************************************************************)
(* The emitted dispatch_wrpc_dynamic.  A call matches its operation        *)
(* against the arms, then runs the matched arm: the decoding statements    *)
(* in order, the handler method, the encoding of the result.               *)
(***************************************************************************)

\* wrpc_transport::Value: a type, a payload, and whether Encode succeeds
Values == { [ty |-> "String", v |-> 1, enc |-> TRUE],
            [ty |-> "String", v |-> 2, enc |-> TRUE],
            [ty |-> "u32",    v |-> 3, enc |-> TRUE],
            [ty |-> "u32",    v |-> 4, enc |-> FALSE] }

\* what a handler method may return, and whether its Encode succeeds
Results == { [v |-> 7, enc |-> TRUE], [v |-> 8, enc |-> FALSE] }

NoResult == [v |-> 0, enc |-> TRUE]

\* the longest value collection a call is given
MaxParams == 2

ParamLists == SeqsUpTo(Values, MaxParams)

\* InvocationError::Unexpected(format!(fmt, arg)) and ::Malformed(..)
InvocationError(kind, fmt, arg) == [kind |-> kind, fmt |-> fmt, arg |-> arg]

NoRet == [status |-> "none"]

OkRet(bytes) == [status |-> "ok", bytes |-> bytes]

ErrRet(e) == [status |-> "err", error |-> e]

IdleCall ==
    [ pc        |-> "idle",
      operation |-> <<>>,
      given     |-> <<>>,     \* the value collection the caller passed
      params    |-> <<>>,     \* mut params: what is left of it
      arm       |-> 0,        \* the matched arm, 0 for the wildcard arm
      popped    |-> <<>>,     \* the value popped and not yet bound, if any
      awaiting  |-> "none",   \* the .await of a decoding statement reached
      bound     |-> <<>>,     \* the let-bound arguments, in binding order
      invoked   |-> <<>>,     \* the handler invocations of this call
      result    |-> NoResult,
      ret       |-> NoRet ]

\* a match that takes the first arm when no literal equals the operation
FindArm_FirstOnMiss(arms, operation) ==
    IF \E i \in DOMAIN arms : arms[i].operation_name = operation
    THEN CHOOSE i \in DOMAIN arms :
            /\ arms[i].operation_name = operation
            /\ \A j \in 1..(i - 1) : arms[j].operation_name # operation
    ELSE IF arms = <<>> THEN 0 ELSE 1

\* match operation.as_str(): the first arm whose literal equals the
\* operation, 0 when only the wildcard arm matches
FindArm(arms, operation) ==
    IF \E i \in DOMAIN arms : arms[i].operation_name = operation
    THEN CHOOSE i \in DOMAIN arms :
            /\ arms[i].operation_name = operation
            /\ \A j \in 1..(i - 1) : arms[j].operation_name # operation
    ELSE 0

\* the call as it enters the match
EnterMatch(arms, operation, params) ==
    LET a == FindArm(arms, operation)
        c == [IdleCall EXCEPT !.operation = operation, !.given = params,
                              !.params = params, !.arm = a]
    IN  IF a = 0
        THEN [c EXCEPT !.pc = "done",
                       !.ret = ErrRet(InvocationError("Malformed",
                                   "Invalid operation name [{operation}]", operation))]
        ELSE [c EXCEPT !.pc = "decode"]

\* a pop that takes the value at the head of the collection
Pop_First(params) ==
    [ value |-> params[1], rest |-> SubSeq(params, 2, Len(params)) ]

\* Vec::pop: the last value and the values before it
Pop(params) ==
    [ value |-> params[Len(params)], rest |-> SubSeq(params, 1, Len(params) - 1) ]

\* what Receive::receive yields for an encoded value read as arg_ty: the
\* value when the types agree; otherwise the bytes may fail to parse or
\* parse as some value of arg_ty
ReceiveOutcomes(value, arg_ty) ==
    IF value.ty = arg_ty THEN {"ok"} ELSE {"ok", "err"}

Fail(call, e) == [call EXCEPT !.pc = "done", !.ret = ErrRet(e)]

\* a pop that binds a default value when no value is left
PopParam_DefaultOnMissing(call, arg) ==
    IF call.params = <<>>
    THEN [call EXCEPT !.bound = Append(@, [name |-> arg.name,
                                           value |-> [ty |-> arg.ty, v |-> 0]])]
    ELSE LET p == Pop(call.params)
         IN  [call EXCEPT !.params = p.rest, !.popped = <<p.value>>,
                          !.awaiting = "encode"]

\* the head of a decoding statement: params.pop().ok_or_else(..)? and the
\* call of encode on the popped value, up to its .await
PopParam(call, arg) ==
    IF call.params = <<>>
    THEN Fail(call, InvocationError("Unexpected",
                     "missing expected parameter [{}]", arg.name))
    ELSE LET p == Pop(call.params)
         IN  [call EXCEPT !.params = p.rest, !.popped = <<p.value>>,
                          !.awaiting = "encode"]

\* encode(..).await has completed: map_err(..)?, then the call of
\* Receive::receive, up to its .await
EncodeParam(call, arg) ==
    IF ~call.popped[1].enc
    THEN Fail(call, InvocationError("Unexpected",
                     "failed to encode parameter [{}]: {e}", arg.name))
    ELSE [call EXCEPT !.awaiting = "receive"]

\* receive(..).await has completed: map_err(..)? and the let that binds
\* the argument
ReceiveParam(call, arg, outcome) ==
    IF outcome = "err"
    THEN Fail(call, InvocationError("Unexpected",
                     "failed to receive parameter [{}]: {e}", arg.name))
    ELSE [call EXCEPT !.bound = Append(@, [name |-> arg.name,
                          value |-> [ty |-> arg.ty, v |-> call.popped[1].v]]),
                      !.popped = <<>>,
                      !.awaiting = "none"]

\* the value a name is bound to: the latest let of that name
Lookup(bound, name) ==
    LET i == CHOOSE k \in DOMAIN bound :
                 /\ bound[k].name = name
                 /\ \A j \in (k + 1)..Len(bound) : bound[j].name # name
    IN  bound[i].value

\* #wit_iface::#func_names(self, #post_self_args).await
InvokeArm(call, arm) ==
    [call EXCEPT
        !.pc = "invoke",
        !.invoked = Append(@,
            [ wit_iface |-> arm.wit_iface,
              func_name |-> arm.func_name,
              args      |-> [i \in 1..(Len(arm.post_self_args) - 1) |->
                               Lookup(call.bound, arm.post_self_args[i + 1])] ])]

\* the handler's future has completed: `let result = ..await`, then the
\* call of result.encode, up to its .await
HandlerReturns(call, result) ==
    [call EXCEPT !.pc = "encode", !.result = result]

\* Display of an unsigned integer: its decimal digits
RECURSIVE DisplayU32(_)
DisplayU32(n) ==
    LET digit == <<"0","1","2","3","4","5","6","7","8","9">>[(n % 10) + 1]
    IN  IF n < 10 THEN <<digit>> ELSE DisplayU32(n \div 10) \o <<digit>>

\* what the identifier `operation` names where the result is encoded: the
\* binding of the match arm (operation @ literal), unless a decoding
\* statement has let-bound an argument of that name since, which shadows it
OperationInScope(call) ==
    IF \E k \in DOMAIN call.bound : call.bound[k].name = s_operation
    THEN DisplayU32(Lookup(call.bound, s_operation).v)
    ELSE call.operation

\* an encode that reads the result of the first caller, as if the result
\* were kept in one place for all calls
EncodeResult_SharedResult(call) ==
    LET result == calls[1].result
    IN  IF result.enc
        THEN [call EXCEPT !.pc = "done", !.ret = OkRet(result.v)]
        ELSE Fail(call, InvocationError("Unexpected",
                     "failed to encode result of operation [{operation}]: {e}",
                     OperationInScope(call)))

\* result.encode(&mut res).await.map_err(..)?; Ok(res.to_vec())
EncodeResult(call) ==
    IF call.result.enc
    THEN [call EXCEPT !.pc = "done", !.ret = OkRet(call.result.v)]
    ELSE Fail(call, InvocationError("Unexpected",
                 "failed to encode result of operation [{operation}]: {e}",
                 OperationInScope(call)))

Arms == interface_dispatch_wrpc_match_arms

\* the operation names a caller may send: every literal of the match,
\* every operation the subject table routes, an operation spelled as in
\* the WIT source, and one that is unknown
Operations ==
    {Arms[i].operation_name : i \in DOMAIN Arms}
    \cup {FormatOperation(insertion_lines[i].wit_ns, insertion_lines[i].wit_pkg,
                          insertion_lines[i].wit_iface, insertion_lines[i].wit_iface_fn) :
            i \in DOMAIN insertion_lines}
    \cup {FormatOperation(s_test, s_foo, s_baz, s_get_URL), s_nosuch}

rt_unchanged ==
    UNCHANGED <<in_vars, map_call, translation, scraped_vars, pc, cursor, methods_todo,
                imported_iface_invocation_methods, methods_by_iface, arms_todo,
                iface_tokens, interface_dispatch_wrpc_match_arms,
                output_types, insertion_lines, subject_table>>

\* a call of dispatch_wrpc_dynamic with a value collection of lists
DispatchWrpcDynamicWith(c, lists) ==
    /\ pc = "serving"
    /\ calls[c].pc = "idle"
    /\ \E operation \in Operations, params \in lists :
         calls' = [calls EXCEPT ![c] = EnterMatch(Arms, operation, params)]
    /\ rt_unchanged

DispatchWrpcDynamic(c) == DispatchWrpcDynamicWith(c, ParamLists)

\* the value collections of concurrent callers: a String that decodes and
\* a u32 that fails to encode
ShortParamLists ==
    SeqsUpTo({v \in Values : v.v \in {1, 4}}, MaxParams)

DispatchWrpcDynamicConcurrently(c) == DispatchWrpcDynamicWith(c, ShortParamLists)

\* the argument the call is decoding
DecodingArg(call) == Arms[call.arm].input_decoding[Len(call.bound) + 1]

DispatchDecodePop(c) ==
    /\ calls[c].pc = "decode"
    /\ calls[c].awaiting = "none"
    /\ Len(calls[c].bound) < Len(Arms[calls[c].arm].input_decoding)
    /\ calls' = [calls EXCEPT ![c] = PopParam(calls[c], DecodingArg(calls[c]))]
    /\ rt_unchanged

DispatchDecodeEncode(c) ==
    /\ calls[c].pc = "decode"
    /\ calls[c].awaiting = "encode"
    /\ calls' = [calls EXCEPT ![c] = EncodeParam(calls[c], DecodingArg(calls[c]))]
    /\ rt_unchanged

DispatchDecodeReceive(c) ==
    /\ calls[c].pc = "decode"
    /\ calls[c].awaiting = "receive"
    /\ LET arg == DecodingArg(calls[c])
       IN  \E outcome \in ReceiveOutcomes(calls[c].popped[1], arg.ty) :
             calls' = [calls EXCEPT ![c] = ReceiveParam(calls[c], arg, outcome)]
    /\ rt_unchanged

DispatchInvoke(c) ==
    /\ calls[c].pc = "decode"
    /\ Len(calls[c].bound) = Len(Arms[calls[c].arm].input_decoding)
    /\ calls' = [calls EXCEPT ![c] = InvokeArm(calls[c], Arms[calls[c].arm])]
    /\ rt_unchanged

DispatchHandlerReturn(c) ==
    /\ calls[c].pc = "invoke"
    /\ \E result \in Results :
         calls' = [calls EXCEPT ![c] = HandlerReturns(calls[c], result)]
    /\ rt_unchanged

DispatchEncode(c) ==
    /\ calls[c].pc = "encode"
    /\ calls' = [calls EXCEPT ![c] = EncodeResult(calls[c])]
    /\ rt_unchanged

\* the call has returned to its caller
DispatchReturn(c) ==
    /\ calls[c].pc = "done"
    /\ calls' = [calls EXCEPT ![c] = IdleCall]
    /\ rt_unchanged

(***************************************************************************)
(* The specifications.  Spec is a generation run from any interface graph  *)
(* and configuration, followed by the construction of the subject table.   *)
(* SpecServe continues with the calls of dispatch_wrpc_dynamic; the import *)
(* stubs take no part in a dispatch, so its graphs import nothing.         *)
(***************************************************************************)

\* the calls of a provider with one caller
SingleCaller == {1}

InitFrom(resolves, configs) ==
    /\ resolve \in resolves
    /\ cfg \in configs
    /\ pc = "imports"
    /\ cursor = SkipWorlds(resolve.worlds, <<1, 1>>)
    /\ imported_iface_invocation_methods = <<>>
    /\ export_trait_methods = EmptyMap
    /\ struct_lookup = EmptyMap
    /\ serde_extended_enums = EmptyMap
    /\ type_lookup = EmptyMap
    /\ output_types = NoTypes
    /\ methods_todo = {}
    /\ methods_by_iface = EmptyMap
    /\ arms_todo = {}
    /\ iface_tokens = <<>>
    /\ interface_dispatch_wrpc_match_arms = <<>>
    /\ insertion_lines = <<>>
    /\ subject_table = NoTable
    /\ calls = [c \in SingleCaller |-> IdleCall]
    /\ map_call = NoMapCall
    /\ translation = NoTranslation

\* a generation run starts from a Resolve over the known interfaces under
\* any configuration, or from an interface with generated function names
InitNamed ==
    InitFrom(NamedResolves,
             {c \in Configs : c.replace_witified_maps})

Init ==
    \/ InitFrom(Resolves, Configs)
    \/ InitNamed

Generate ==
    \/ ProcessImport
    \/ VisitFile
    \/ BuildLatticeMethods
    \/ BuildLatticeMethodsBail
    \/ BuildLatticeMethodsDone
    \/ BuildArms
    \/ BuildWrpcImpls
    \/ BuildWrpcImplsFails

Next ==
    \/ Generate
    \/ IncomingWrpcInvocationsBySubject

Spec == Init /\ [][Next]_vars

InitServe ==
    InitFrom({r \in Resolves : \A w \in DOMAIN r.worlds : r.worlds[w].imports = <<>>},
             Configs)

NextServe ==
    \/ VisitFile
    \/ BuildLatticeMethods
    \/ BuildLatticeMethodsBail
    \/ BuildLatticeMethodsDone
    \/ BuildArms
    \/ BuildWrpcImpls
    \/ BuildWrpcImplsFails
    \/ IncomingWrpcInvocationsBySubject
    \/ \E c \in DOMAIN calls : DispatchWrpcDynamic(c)
    \/ \E c \in DOMAIN calls : DispatchDecodePop(c)
    \/ \E c \in DOMAIN calls : DispatchDecodeEncode(c)
    \/ \E c \in DOMAIN calls : DispatchDecodeReceive(c)
    \/ \E c \in DOMAIN calls : DispatchInvoke(c)
    \/ \E c \in DOMAIN calls : DispatchHandlerReturn(c)
    \/ \E c \in DOMAIN calls : DispatchEncode(c)
    \/ \E c \in DOMAIN calls : DispatchReturn(c)

SpecServe == InitServe /\ [][NextServe]_vars

\* the calls of a provider served by two tasks at once
Callers == {1, 2}

\* a provider of key-value of wasmcloud:keyvalue whose dispatch is entered
\* by every caller, the calls interleaved at their await points
InitConcurrent ==
    /\ resolve \in {r \in Resolves : r.worlds[1] = [imports |-> <<>>, exports |-> <<1>>]}
    /\ cfg \in {c \in Configs : c.replace_witified_maps}
    /\ pc = "imports"
    /\ cursor = SkipWorlds(resolve.worlds, <<1, 1>>)
    /\ imported_iface_invocation_methods = <<>>
    /\ export_trait_methods = EmptyMap
    /\ struct_lookup = EmptyMap
    /\ serde_extended_enums = EmptyMap
    /\ type_lookup = EmptyMap
    /\ output_types = NoTypes
    /\ methods_todo = {}
    /\ methods_by_iface = EmptyMap
    /\ arms_todo = {}
    /\ iface_tokens = <<>>
    /\ interface_dispatch_wrpc_match_arms = <<>>
    /\ insertion_lines = <<>>
    /\ subject_table = NoTable
    /\ calls = [c \in Callers |-> IdleCall]
    /\ map_call = NoMapCall
    /\ translation = NoTranslation

NextConcurrent ==
    \/ VisitFile
    \/ BuildLatticeMethods
    \/ BuildLatticeMethodsDone
    \/ BuildArms
    \/ BuildWrpcImpls
    \/ BuildWrpcImplsFails
    \/ IncomingWrpcInvocationsBySubject
    \/ \E c \in DOMAIN calls : DispatchWrpcDynamicConcurrently(c)
    \/ \E c \in DOMAIN calls : DispatchDecodePop(c)
    \/ \E c \in DOMAIN calls : DispatchDecodeEncode(c)
    \/ \E c \in DOMAIN calls : DispatchDecodeReceive(c)
    \/ \E c \in DOMAIN calls : DispatchInvoke(c)
    \/ \E c \in DOMAIN calls : DispatchHandlerReturn(c)
    \/ \E c \in DOMAIN calls : DispatchEncode(c)
    \/ \E c \in DOMAIN calls : DispatchReturn(c)

SpecConcurrent == InitConcurrent /\ [][NextConcurrent]_vars

\* a list of pairs on the wire, decoded and encoded again, under every
\* configuration
InitMaps ==
    /\ resolve \in {r \in Resolves : r.worlds[1] = [imports |-> <<>>, exports |-> <<>>]}
    /\ cfg \in Configs
    /\ pc = "serving"
    /\ cursor = <<2, 1>>
    /\ imported_iface_invocation_methods = <<>>
    /\ export_trait_methods = EmptyMap
    /\ struct_lookup = EmptyMap
    /\ serde_extended_enums = EmptyMap
    /\ type_lookup = EmptyMap
    /\ output_types = NoTypes
    /\ methods_todo = {}
    /\ methods_by_iface = EmptyMap
    /\ arms_todo = {}
    /\ iface_tokens = <<>>
    /\ interface_dispatch_wrpc_match_arms = <<>>
    /\ insertion_lines = <<>>
    /\ subject_table = NoTable
    /\ calls = [c \in SingleCaller |-> IdleCall]
    /\ \E pairs \in PairLists :
          map_call = [NoMapCall EXCEPT !.pc = "received", !.wire = pairs]
    /\ translation = NoTranslation

NextMaps ==
    \/ DecodeMap
    \/ EncodeMap

SpecMaps == InitMaps /\ [][NextMaps]_vars

\* a call of translate_export_fn_for_lattice outside a generation run
InitTranslate ==
    /\ resolve \in {r \in Resolves : r.worlds[1] = [imports |-> <<>>, exports |-> <<>>]}
    /\ cfg \in Configs
    /\ pc = "serving"
    /\ cursor = <<2, 1>>
    /\ imported_iface_invocation_methods = <<>>
    /\ export_trait_methods = EmptyMap
    /\ struct_lookup \in TranslateStructs
    /\ serde_extended_enums = EmptyMap
    /\ type_lookup \in TranslateTypes
    /\ output_types = NoTypes
    /\ methods_todo = {}
    /\ methods_by_iface = EmptyMap
    /\ arms_todo = {}
    /\ iface_tokens = <<>>
    /\ interface_dispatch_wrpc_match_arms = <<>>
    /\ insertion_lines = <<>>
    /\ subject_table = NoTable
    /\ calls = [c \in SingleCaller |-> IdleCall]
    /\ map_call = NoMapCall
    /\ \E operation_name \in TranslateOperations, trait_method \in TranslateMethods :
          translation = [ pc             |-> "given",
                          operation_name |-> operation_name,
                          trait_method   |-> trait_method,
                          out            |-> Bail ]

NextTranslate == Translate

SpecTranslate == InitTranslate /\ [][NextTranslate]_vars

\* the import loop and the scrape, over graphs of several worlds
InitImports == InitFrom(ImportResolves, Configs)

NextImports ==
    \/ ProcessImport
    \/ VisitFile

SpecImports == InitImports /\ [][NextImports]_vars

(***************************************************************************)
(* Properties                                                              *)
(***************************************************************************)

Generated == pc \in {"emitted", "serving"}

s_get_url_ident == <<"g","e","t","_","u","r","l">>

s_get_url_operation ==
    <<"t","e","s","t",":","f","o","o","/","b","a","z",".","g","e","t","-","u","r","l">>

s_key_value_path ==
    <<"w","a","s","m","c","l","o","u","d",".","k","e","y","v","a","l","u","e",".",
      "k","e","y","_","v","a","l","u","e">>

s_WasmcloudKeyvalueKeyValue ==
    <<"W","a","s","m","c","l","o","u","d","K","e","y","v","a","l","u","e",
      "K","e","y","V","a","l","u","e">>

\* the arms that call handler method ident of the trait of interface path p
ArmsOf(p, ident) ==
    {i \in DOMAIN Arms : /\ Arms[i].wit_iface = WitIfaceUpperCamel(p)
                         /\ Arms[i].func_name = ident}

\* C1: after a generation run, the arm of every exported function of an
\* interface whose path has three segments matches the literal
\* kebab(namespace):kebab(package)/kebab(interface).kebab(function), each
\* segment kebab-cased on its own; the lattice method carries the same name;
\* key_value.get of wasmcloud.keyvalue matches wasmcloud:keyvalue/key-value.get
\* and baz.get_url of test.foo matches test:foo/baz.get-url.
C1_OperationNameIsKebabJoin ==
    Generated =>
      /\ \A p \in DOMAIN export_trait_methods :
           LET segs == SplitDot(p)
           IN  Len(segs) = 3 =>
                 \A k \in DOMAIN export_trait_methods[p] :
                    LET ident    == export_trait_methods[p][k].ident
                        expected == to_kebab_case(segs[1]) \o <<":">>
                                    \o to_kebab_case(segs[2]) \o <<"/">>
                                    \o to_kebab_case(segs[3]) \o <<".">>
                                    \o to_kebab_case(ident)
                    IN  /\ ArmsOf(p, ident) # {}
                        /\ \A i \in ArmsOf(p, ident) :
                              Arms[i].operation_name = expected
                        /\ \E i \in DOMAIN methods_by_iface[WitIfaceUpperCamel(p)] :
                              LET lm == methods_by_iface[WitIfaceUpperCamel(p)][i]
                              IN  lm.func_name = ident /\ lm.operation_name = expected
      /\ \A i \in DOMAIN Arms :
           /\ (Arms[i].wit_iface = s_WasmcloudKeyvalueKeyValue /\ Arms[i].func_name = s_get)
                 => Arms[i].operation_name = s_scenario_a_operation
           /\ Arms[i].func_name = s_get_url_ident
                 => Arms[i].operation_name = s_get_url_operation

\* a generation run has emitted the arms of key_value.get and of get_url
C1_Witness ==
    /\ pc = "emitted"
    /\ s_key_value_path \in DOMAIN export_trait_methods
    /\ \E i \in DOMAIN Arms : Arms[i].operation_name = s_scenario_a_operation
    /\ \E i \in DOMAIN Arms : Arms[i].func_name = s_get_url_ident

\* the number of arguments the matched arm of a call declares
Declared(call) == Len(Arms[call.arm].input_decoding)

\* C2: in a call that matched an arm and was given as many values as the
\* arm declares arguments, the k-th declared argument is decoded from the
\* k-th value of the collection, and the handler receives the decoded
\* arguments in declaration order.
C2_ArgumentsBoundInDeclarationOrder ==
    \A c \in DOMAIN calls :
       LET call == calls[c]
       IN  (call.pc # "idle" /\ call.arm # 0 /\ Len(call.given) = Declared(call)) =>
             /\ \A k \in DOMAIN call.bound :
                   /\ call.bound[k].name = Arms[call.arm].input_decoding[k].name
                   /\ call.bound[k].value.v = call.given[k].v
             /\ \A i \in DOMAIN call.invoked :
                   \A k \in DOMAIN call.invoked[i].args :
                      call.invoked[i].args[k].v = call.given[k].v

\* the exported functions the package policy does not exclude, as
\* (interface id, function index)
ExposedFns ==
    {<<id, k>> : id \in {i \in ExportedIds(resolve) :
                            /\ Interfaces[i].package # <<s_wasmcloud, s_bus>>
                            /\ Interfaces[i].package # <<s_wasi, s_io>>},
                 k \in 1..3} \cap
    {<<id, k>> \in (DOMAIN Interfaces) \X (1..3) : k \in DOMAIN Interfaces[id].functions}

ArmsFor(f) ==
    ArmsOf(InterfacePath(Interfaces[f[1]]),
           to_snake_case(Interfaces[f[1]].functions[f[2]].name))

LinesFor(f) ==
    {i \in DOMAIN insertion_lines :
        /\ <<insertion_lines[i].wit_ns, insertion_lines[i].wit_pkg>>
               = MapSeq(Interfaces[f[1]].package, to_kebab_case)
        /\ insertion_lines[i].wit_iface = to_kebab_case(Interfaces[f[1]].name)
        /\ insertion_lines[i].wit_iface_fn
               = to_kebab_case(Interfaces[f[1]].functions[f[2]].name)}

\* C3: after a generation run every exported function the
\* package policy does not exclude has exactly one subject insertion and
\* exactly one dispatch arm, no arm and no insertion belongs to anything
\* else, and the functions with an insertion are the functions with an arm.
C3_OneEntryAndOneArmPerFunction ==
    Generated =>
      /\ \A f \in ExposedFns :
            /\ Cardinality(ArmsFor(f)) = 1
            /\ Cardinality(LinesFor(f)) = 1
      /\ Len(Arms) = Cardinality(ExposedFns)
      /\ Len(insertion_lines) = Cardinality(ExposedFns)
      /\ {f \in ExposedFns : ArmsFor(f) # {}} = {f \in ExposedFns : LinesFor(f) # {}}

\* C11: once the method map is built from a scraped map holding an interface
\* path that does not split on "." into three segments, whatever methods
\* the path declares, the run has aborted: generation never goes on to the
\* arms, the subject insertions or the emitted output.
C11_MalformedPathAborts ==
    (\E p \in DOMAIN export_trait_methods : Len(SplitDot(p)) # 3)
       => pc \in {"imports", "methods", "aborted"}

\* C4: no two arms of the generated match carry the same operation name
\* literal, and the lattice methods of one interface have pairwise
\* different operation names.
C4_OperationNamesDistinct ==
    /\ \A i, j \in DOMAIN Arms :
          i # j => Arms[i].operation_name # Arms[j].operation_name
    /\ \A t \in DOMAIN methods_by_iface :
          \A i, j \in DOMAIN methods_by_iface[t] :
             i # j => methods_by_iface[t][i].operation_name
                        # methods_by_iface[t][j].operation_name

\* the match has the arms of two interfaces that both declare get, one of
\* them with three functions
C4_Witness ==
    /\ pc = "emitted"
    /\ Len(Arms) = 5
    /\ Cardinality({i \in DOMAIN Arms : Arms[i].func_name = s_get}) = 2

TableSubjects ==
    {SubjectOf(subject_table.lattice_name, subject_table.component_id,
               subject_table.wrpc_version, insertion_lines[i]) :
       i \in DOMAIN insertion_lines}

\* C5: for the run time values of a call of
\* incoming_wrpc_invocations_by_subject, the subjects of the insertions are
\* pairwise different, and the returned table has as many entries as there
\* are insertions.
C5_SubjectsDistinct ==
    subject_table.built =>
      /\ \A i, j \in DOMAIN insertion_lines :
            i # j =>
              SubjectOf(subject_table.lattice_name, subject_table.component_id,
                        subject_table.wrpc_version, insertion_lines[i])
              # SubjectOf(subject_table.lattice_name, subject_table.component_id,
                          subject_table.wrpc_version, insertion_lines[j])
      /\ DOMAIN subject_table.mapping = TableSubjects
      /\ Cardinality(DOMAIN subject_table.mapping) = Len(insertion_lines)

\* a table built from the insertions of two interfaces that both declare get
C5_Witness ==
    /\ subject_table.built
    /\ Len(insertion_lines) = 5
    /\ subject_table.lattice_name = s_prod_eu

s_KeyValue == <<"K","e","y","V","a","l","u","e">>

\* the subject of an operation name under the run time values of the table
SubjectOfOperation(operation_name) ==
    subject_table.lattice_name \o <<".">> \o subject_table.component_id
        \o <<".">> \o s_wrpc \o <<".">> \o subject_table.wrpc_version
        \o <<".">> \o operation_name

\* the canonical operation name of exported function f
CanonicalOperation(f) ==
    LET iface == Interfaces[f[1]]
    IN  FormatOperation(to_kebab_case(iface.package[1]), to_kebab_case(iface.package[2]),
                        to_kebab_case(iface.name),
                        to_kebab_case(iface.functions[f[2]].name))

C12_WitnessNoArm ==
    /\ subject_table.built
    /\ \E f \in ExposedFns : ArmsFor(f) = {} /\ LinesFor(f) # {}

IgnoredPackages == { <<s_wasmcloud, s_bus>>, <<s_wasi, s_io>> }

\* what one step of a call running alone makes of it
StepsAlone(call) ==
    IF call.pc = "decode" /\ call.awaiting = "encode"
    THEN {EncodeParam(call, DecodingArg(call))}
    ELSE IF call.pc = "decode" /\ call.awaiting = "receive"
    THEN {ReceiveParam(call, DecodingArg(call), outcome) :
            outcome \in ReceiveOutcomes(call.popped[1], DecodingArg(call).ty)}
    ELSE IF call.pc = "decode" /\ Len(call.bound) < Len(Arms[call.arm].input_decoding)
    THEN {PopParam(call, DecodingArg(call))}
    ELSE IF call.pc = "decode"
    THEN {InvokeArm(call, Arms[call.arm])}
    ELSE IF call.pc = "invoke"
    THEN {HandlerReturns(call, result) : result \in Results}
    ELSE IF call.pc = "encode"
    THEN {EncodeResult(call)}
    ELSE {}

\* every state of a call running alone from the state call
RECURSIVE RunAlone(_)
RunAlone(call) == {call} \cup UNION {RunAlone(next) : next \in StepsAlone(call)}

\* every call in progress is in a state that the same operation with the
\* same value collection reaches when it runs alone
Isolated ==
    \A c \in DOMAIN calls :
       calls[c].pc # "idle" =>
          calls[c] \in RunAlone(EnterMatch(Arms, calls[c].operation, calls[c].given))

\* a step is a step of one call: the call enters the match, or goes where
\* a step alone takes it, or is over after its return
OneCallSteps ==
    \A c \in DOMAIN calls :
       calls'[c] # calls[c] =>
          /\ \A d \in DOMAIN calls \ {c} : calls'[d] = calls[d]
          /\ \/ /\ calls[c].pc = "idle"
                /\ calls'[c] = EnterMatch(Arms, calls'[c].operation, calls'[c].given)
             \/ calls[c].pc = "done" /\ calls'[c] = IdleCall
             \/ calls'[c] \in StepsAlone(calls[c])

\* C16: dispatch calls that run concurrently, interleaved at every .await
\* of their arms, each consume their own value collection and
\* fill their own result: every call is at each moment where it would be
\* running alone, every step changes one call only, and a call that ends in
\* a failure leaves the other calls as they are.
C16_ConcurrentCallsIsolated == []Isolated /\ [][OneCallSteps]_vars

\* one call has returned a failure and another call of the same provider,
\* given values of its own, has returned Ok
C16_Witness ==
    /\ calls[1].pc = "done"
    /\ calls[1].ret.status = "err"
    /\ calls[1].given # <<>>
    /\ calls[2].pc = "done"
    /\ calls[2].ret.status = "ok"
    /\ calls[2].given # <<>>

\* where a matched call stands: the handler is invoked at most once and
\* only with every declared argument decoded, the result is encoded only
\* after the invocation, Ok carries the encoded result of the one
\* invocation, and a result that fails to encode gives Unexpected naming
\* the operation
ArmStepsInOrder ==
    \A c \in DOMAIN calls :
       LET call == calls[c]
       IN  (call.pc # "idle" /\ call.arm # 0) =>
             /\ Len(call.invoked) <= 1
             /\ call.pc = "decode" => call.invoked = <<>> /\ call.ret = NoRet
             /\ call.pc = "decode" /\ call.awaiting # "none" =>
                   Len(call.bound) < Declared(call)
             /\ call.pc \in {"invoke", "encode"} =>
                   Len(call.invoked) = 1 /\ call.ret = NoRet
             /\ call.invoked # <<>> =>
                   /\ Len(call.bound) = Declared(call)
                   /\ Len(call.invoked[1].args) = Declared(call)
             /\ (call.pc = "done" /\ call.ret.status = "ok") =>
                   /\ Len(call.invoked) = 1
                   /\ call.result.enc
                   /\ call.ret.bytes = call.result.v
             /\ (call.pc = "done" /\ call.invoked # <<>> /\ ~call.result.enc) =>
                   call.ret = ErrRet(InvocationError("Unexpected",
                       "failed to encode result of operation [{operation}]: {e}",
                       call.operation))
             /\ (call.pc = "done" /\ call.invoked = <<>>) => call.ret.status = "err"

\* the steps of a matched call follow one another: decode, then the
\* handler, then encode, then the return
ArmStepsFollow ==
    \A c \in DOMAIN calls :
       (calls[c].pc # "idle" /\ calls'[c] # calls[c]) =>
          \/ /\ calls[c].pc = "decode"
             /\ Len(calls[c].bound) < Declared(calls[c])
             /\ calls'[c].pc \in {"decode", "done"}
             /\ calls'[c].invoked = <<>>
          \/ /\ calls[c].pc = "decode"
             /\ Len(calls[c].bound) = Declared(calls[c])
             /\ calls'[c].pc = "invoke"
             /\ Len(calls'[c].invoked) = 1
             /\ calls'[c].bound = calls[c].bound
          \/ /\ calls[c].pc = "invoke"
             /\ calls'[c].pc = "encode"
             /\ calls'[c].invoked = calls[c].invoked
          \/ /\ calls[c].pc = "encode"
             /\ calls'[c].pc = "done"
             /\ calls'[c].invoked = calls[c].invoked
          \/ /\ calls[c].pc = "done"
             /\ calls'[c] = IdleCall

\* C17: in a matched dispatch arm all declared arguments are decoded, then
\* the handler method is invoked, then its result is encoded, then Ok is
\* returned with the encoded bytes; the handler is invoked at most once and
\* only after every argument decoded, and Ok is returned only after the
\* invocation and a successful encode, an encode failure returning
\* Unexpected naming the operation.
C17_DecodeInvokeEncodeReturn == []ArmStepsInOrder /\ [][ArmStepsFollow]_vars

\* a call of an arm with two declared arguments has decoded both, invoked
\* the handler, encoded its result and returned Ok
C17_Witness ==
    \E c \in DOMAIN calls :
       /\ calls[c].pc = "done"
       /\ calls[c].ret.status = "ok"
       /\ Len(calls[c].bound) = 2
       /\ Len(calls[c].invoked) = 1

\* a call has invoked the handler and returned the failure of the encode
C17_WitnessEncodeFailure ==
    \E c \in DOMAIN calls :
       /\ calls[c].pc = "done"
       /\ calls[c].ret.status = "err"
       /\ Len(calls[c].invoked) = 1

\* the decoding statements of a call that have popped a value
Popped(call) == Len(call.given) - Len(call.params)

\* C18: when the matched arm declares n arguments and the collection holds
\* m > n values, the call never fails for want or excess of a value:
\* the values removed are those at the tail of the collection, exactly n
\* of them once the handler is invoked, the m - n values at the head are
\* left in the collection, neither decoded nor passed to the handler, and
\* the handler is invoked unless one of the n tail values fails to decode.
C18_ExcessValuesIgnored ==
    \A c \in DOMAIN calls :
       LET call == calls[c]
           m    == Len(call.given)
       IN  (call.pc # "idle" /\ call.arm # 0 /\ m > Declared(call)) =>
             /\ Popped(call) <= Declared(call)
             /\ call.params = SubSeq(call.given, 1, Len(call.params))
             /\ \A k \in DOMAIN call.bound :
                   call.bound[k].value.v = call.given[m - k + 1].v
             /\ call.invoked # <<>> =>
                   /\ Popped(call) = Declared(call)
                   /\ call.params = SubSeq(call.given, 1, m - Declared(call))
                   /\ \A i \in DOMAIN call.invoked :
                        \A k \in DOMAIN call.invoked[i].args :
                           \E j \in (m - Declared(call) + 1)..m :
                              call.invoked[i].args[k].v = call.given[j].v
             /\ (call.pc = "done" /\ call.invoked = <<>>) =>
                   /\ call.ret.status = "err"
                   /\ call.ret.error.fmt \in
                         { "failed to encode parameter [{}]: {e}",
                           "failed to receive parameter [{}]: {e}" }
                   /\ call.ret.error.arg =
                         Arms[call.arm].input_decoding[Popped(call)].name
                   /\ \/ ~call.given[m - Popped(call) + 1].enc
                      \/ call.given[m - Popped(call) + 1].ty #
                            Arms[call.arm].input_decoding[Popped(call)].ty
             /\ (call.pc = "decode" /\ Len(call.bound) = Declared(call)) =>
                   ENABLED DispatchInvoke(c)

\* an arm declaring one argument was given two values: the last was decoded
\* and passed to the handler, the first is left in the collection
C18_Witness ==
    \E c \in DOMAIN calls :
       /\ calls[c].arm # 0
       /\ Declared(calls[c]) = 1
       /\ Len(calls[c].given) = 2
       /\ calls[c].given[1].v # calls[c].given[2].v
       /\ Len(calls[c].invoked) = 1
       /\ calls[c].params = <<calls[c].given[1]>>

KeyUnique(pairs) ==
    \A i, j \in DOMAIN pairs : i # j => pairs[i][1] # pairs[j][1]

\* C15: with map translation enabled, a list of pairs with unique keys that
\* is decoded into a map and encoded again is a list of pairs with unique
\* keys that holds the same keys, each with the same value.
C15_MapRoundTrip ==
    (map_call.pc = "encoded" /\ KeyUnique(map_call.wire)) =>
       /\ KeyUnique(map_call.out)
       /\ Range(map_call.out) = Range(map_call.wire)
       /\ DecodePairs(map_call.out) = DecodePairs(map_call.wire)

\* a list of two pairs with different keys and different values has gone
\* through decode and encode and come out in the other order
C15_Witness ==
    /\ map_call.pc = "encoded"
    /\ cfg.replace_witified_maps
    /\ Len(map_call.wire) = 2
    /\ KeyUnique(map_call.wire)
    /\ map_call.wire[1][2] # map_call.wire[2][2]
    /\ map_call.out # map_call.wire

\* every definition of the emitted type lists, by name
EmittedNames == output_types.types \o output_types.structs \o output_types.enums

Occurrences(seq, n) == Cardinality({i \in DOMAIN seq : seq[i] = n})

\* C14: in the emitted output every record type and every variant type of
\* the catalogs appears exactly once, a type alias is emitted (once) if its
\* name is a key of neither the record catalog nor the variant catalog and
\* is left out otherwise, and no type name is defined twice.
C14_TypesEmittedOnce ==
    Generated =>
      /\ \A n \in DOMAIN struct_lookup : Occurrences(output_types.structs, n) = 1
      /\ \A n \in DOMAIN serde_extended_enums :
            Occurrences(output_types.enums, n) = 1
      /\ \A n \in DOMAIN type_lookup :
            Occurrences(output_types.types, n) =
              IF n \in DOMAIN struct_lookup \cup DOMAIN serde_extended_enums
              THEN 0 ELSE 1
      /\ \A n \in Range(EmittedNames) : Occurrences(EmittedNames, n) = 1

\* the stubs of the InvocationHandler for function k of interface id
StubsFor(id, k) ==
    {i \in DOMAIN imported_iface_invocation_methods :
        /\ imported_iface_invocation_methods[i].iface = id
        /\ imported_iface_invocation_methods[i].func
              = to_snake_case(Interfaces[id].functions[k].name)}

\* C13: when the import loop has ended, the InvocationHandler has exactly
\* one stub for every function of every imported interface whose package is
\* neither wasmcloud:bus nor wasi:io, and no stub for an imported interface
\* of one of these packages, whatever the configuration is.
C13_OneStubPerImportedFunction ==
    pc # "imports" =>
      \A id \in ImportedIds(resolve) :
         IF Interfaces[id].package \in IgnoredPackages
         THEN \A i \in DOMAIN imported_iface_invocation_methods :
                 imported_iface_invocation_methods[i].iface # id
         ELSE \A k \in DOMAIN Interfaces[id].functions :
                 Cardinality(StubsFor(id, k)) = 1

IsPrefix(p, s) == Len(p) <= Len(s) /\ SubSeq(s, 1, Len(p)) = p

s_bus_prefix == <<"w","a","s","m","c","l","o","u","d",":","b","u","s","/">>

s_io_prefix == <<"w","a","s","i",":","i","o","/">>

s_WasmcloudBus == <<"W","a","s","m","c","l","o","u","d","B","u","s">>

s_WasiIo == <<"W","a","s","i","I","o">>

\* C6: whatever the interface graph and the configuration, at no
\* point of a generation run does the output hold a dispatch arm, a
\* capability trait, an import stub or a subject insertion of an interface
\* of package wasmcloud:bus or wasi:io.
C6_IgnoredPackagesNeverGenerated ==
    /\ \A i \in DOMAIN Arms :
          /\ ~IsPrefix(s_bus_prefix, Arms[i].operation_name)
          /\ ~IsPrefix(s_io_prefix, Arms[i].operation_name)
          /\ ~IsPrefix(s_WasmcloudBus, Arms[i].wit_iface)
          /\ ~IsPrefix(s_WasiIo, Arms[i].wit_iface)
    /\ \A i \in DOMAIN iface_tokens :
          /\ ~IsPrefix(s_WasmcloudBus, iface_tokens[i].name)
          /\ ~IsPrefix(s_WasiIo, iface_tokens[i].name)
    /\ \A i \in DOMAIN imported_iface_invocation_methods :
          Interfaces[imported_iface_invocation_methods[i].iface].package
             \notin IgnoredPackages
    /\ \A i \in DOMAIN insertion_lines :
          <<insertion_lines[i].wit_ns, insertion_lines[i].wit_pkg>> \notin IgnoredPackages
    /\ subject_table.built =>
          \A subject \in DOMAIN subject_table.mapping :
             \A k \in 1..Len(subject) :
                /\ ~IsPrefix(s_bus_prefix, SubSeq(subject, k, Len(subject)))
                /\ ~IsPrefix(s_io_prefix, SubSeq(subject, k, Len(subject)))

\* the capability trait methods generated for handler method ident of the
\* trait of interface path p
TraitFnsOf(p, ident) ==
    {f \in UNION {Range(iface_tokens[i].methods) :
                    i \in {j \in DOMAIN iface_tokens :
                             iface_tokens[j].name = WitIfaceUpperCamel(p)}} :
       f.func_name = ident}

LatticeMethodsOf(p, ident) ==
    IF WitIfaceUpperCamel(p) \in DOMAIN methods_by_iface
    THEN {lm \in Range(methods_by_iface[WitIfaceUpperCamel(p)]) : lm.func_name = ident}
    ELSE {}

SoleRecordParam(m) ==
    Len(m.params) = 1 /\ m.params[1].ty \in DOMAIN struct_lookup

\* C7: for every exported function with exactly one declared parameter
\* whose type is a key of the record catalog, the invocation arguments of
\* its lattice method, and the arguments after ctx of its capability trait
\* method, are the fields of that record in declared order, each a named
\* argument of its own; put(args: PutArgs) becomes (key: String, value:
\* String).
C7_SoleRecordParameterFlattened ==
    Generated =>
      \A p \in DOMAIN export_trait_methods :
         \A k \in DOMAIN export_trait_methods[p] :
            LET m      == export_trait_methods[p][k]
                fields == struct_lookup[m.params[1].ty]
            IN  SoleRecordParam(m) =>
                  /\ LatticeMethodsOf(p, m.ident) # {}
                  /\ \A lm \in LatticeMethodsOf(p, m.ident) :
                        lm.invocation_args = fields
                  /\ TraitFnsOf(p, m.ident) # {}
                  /\ \A f \in TraitFnsOf(p, m.ident) :
                        /\ f.args = <<Param(s_ctx, "Context")>> \o fields
                        /\ f.args # <<Param(s_ctx, "Context"), m.params[1]>>
                        /\ m.ident = s_put =>
                              f.args = << Param(s_ctx, "Context"),
                                          Param(s_key, "String"),
                                          Param(s_value, "String") >>

\* the trait of key_value has been emitted with the method put
C7_Witness ==
    /\ pc = "emitted"
    /\ \E i \in DOMAIN iface_tokens :
          \E k \in DOMAIN iface_tokens[i].methods :
             iface_tokens[i].methods[k].func_name = s_put
    /\ \E p \in DOMAIN export_trait_methods :
          \E k \in DOMAIN export_trait_methods[p] :
             SoleRecordParam(export_trait_methods[p][k])

\* the trait method handed to the translation has one parameter, whose
\* type is not a key of the record catalog
SoleOtherParam ==
    /\ Len(translation.trait_method.params) = 1
    /\ translation.trait_method.params[1].ty \notin DOMAIN struct_lookup

\* the translation has returned a lattice method with the one parameter as
\* its one named argument, the operation name it was given, and the
\* default return when the method declares none
OneArgumentKept ==
    LET m == translation.trait_method
    IN  /\ translation.out.ok
        /\ Len(translation.out.val.invocation_args) = 1
        /\ translation.out.val.invocation_args[1].name = m.params[1].name
        /\ translation.out.val.invocation_args[1].ty =
              (IF cfg.replace_witified_maps /\ m.params[1].ty = WitifiedMap
               THEN NativeMap ELSE m.params[1].ty)
        /\ translation.out.val.operation_name = translation.operation_name
        /\ m.result = NoType => translation.out.val.invocation_return = NoType

\* the type names the method refers to are names of the language or keys
\* of the alias catalog
NamesResolve ==
    LET m == translation.trait_method
    IN  \A ty \in {m.params[1].ty, m.result} :
           \/ ty \in {"String", "u32", "bool", "()", "Vec<(String,String)>"}
           \/ ty \in DOMAIN type_lookup

\* C8, as stated: for every function whose sole parameter's type is not a
\* key of the record catalog, translate_export_fn_for_lattice returns a
\* LatticeMethod with exactly one named invocation argument, the operation
\* name that was passed in, and the default return when the function
\* declares no return type.
C8_SoleOtherParameterKept ==
    (translation.pc = "done" /\ SoleOtherParam) => OneArgumentKept

\* C8, amended: for every function whose sole parameter's type is not a key
\* of the record catalog and whose type names resolve (names of the
\* language, a list of pairs, keys of the alias catalog), the translation
\* returns a LatticeMethod with exactly one named invocation argument, the
\* operation name that was passed in, and the default return when the
\* function declares no return type; this includes a list of pairs with
\* map translation on and empty catalogs.  For a sole parameter whose type
\* name is in no catalog the translation returns an error instead.
C8_SoleResolvableParameterKept ==
    (translation.pc = "done" /\ SoleOtherParam) =>
       /\ NamesResolve => OneArgumentKept
       /\ (/\ translation.trait_method.params[1].ty = "Handle"
           /\ "Handle" \notin DOMAIN type_lookup) => ~translation.out.ok
       /\ (/\ cfg.replace_witified_maps
           /\ translation.trait_method = [ident  |-> s_baz,
                                          params |-> <<Param(to_snake_case(s_test_map), WitifiedMap)>>,
                                          result |-> NoType]
           /\ translation.operation_name = s_test_operation
           /\ struct_lookup = EmptyMap /\ type_lookup = EmptyMap) =>
             /\ translation.out.ok
             /\ translation.out.val.operation_name = s_test_operation
             /\ Len(translation.out.val.invocation_args) = 1
             /\ translation.out.val.invocation_return = NoType

\* fn baz(test_map: Vec<(String, String)>) {} has been translated with map
\* translation on and empty catalogs
C8_Witness ==
    /\ translation.pc = "done"
    /\ cfg.replace_witified_maps
    /\ struct_lookup = EmptyMap
    /\ type_lookup = EmptyMap
    /\ translation.trait_method.params = <<Param(to_snake_case(s_test_map), WitifiedMap)>>
    /\ translation.trait_method.result = NoType
    /\ translation.out.ok
    /\ translation.out.val.invocation_args[1].ty = NativeMap

\* a sole parameter of an alias type, and one of a variant type that the
\* alias catalog holds while the record catalog holds other names, have
\* been translated
C8_WitnessAlias ==
    /\ translation.pc = "done"
    /\ SoleOtherParam
    /\ struct_lookup # EmptyMap
    /\ translation.trait_method.params[1].ty \in {"Key", "Outcome"}
    /\ translation.out.ok

\* a sole parameter of a type that no catalog holds has been given to the
\* translation, which has failed
C8_WitnessUnresolved ==
    /\ translation.pc = "done"
    /\ SoleOtherParam
    /\ translation.trait_method.params[1].ty = "Handle"
    /\ ~translation.out.ok

Literals == {Arms[i].operation_name : i \in DOMAIN Arms}

\* C9: a call whose operation equals none of the operation name literals
\* returns a Malformed failure whose message names that operation; no value
\* is taken from the collection, none is decoded, and no handler method is
\* invoked.
C9_UnknownOperationMalformed ==
    \A c \in DOMAIN calls :
       LET call == calls[c]
       IN  (call.pc # "idle" /\ call.operation \notin Literals) =>
             /\ call.pc = "done"
             /\ call.ret = ErrRet(InvocationError("Malformed",
                                    "Invalid operation name [{operation}]",
                                    call.operation))
             /\ call.params = call.given
             /\ call.bound = <<>>
             /\ call.invoked = <<>>

\* a call with an unknown operation and two values has returned, while the
\* match has arms
C9_Witness ==
    \E c \in DOMAIN calls :
       /\ calls[c].pc = "done"
       /\ calls[c].operation = s_nosuch
       /\ Len(calls[c].given) = 2
       /\ Arms # <<>>

ParameterFormats ==
    { "missing expected parameter [{}]",
      "failed to encode parameter [{}]: {e}",
      "failed to receive parameter [{}]: {e}" }

\* C10: a call that matched an arm and was given fewer values than the arm
\* declares arguments never invokes the handler and, once it has returned,
\* has returned an Unexpected failure whose message names the declared
\* parameter that was being decoded; so has every call that returned
\* because a value failed to decode.  When every given value decoded, the
\* parameter named is the first one no value was left for.
C10_MissingOrUndecodableParameter ==
    \A c \in DOMAIN calls :
       LET call == calls[c]
           failed_on == Arms[call.arm].input_decoding[Len(call.bound) + 1].name
       IN  (call.pc # "idle" /\ call.arm # 0) =>
             /\ (Len(call.given) < Declared(call)) =>
                   /\ call.invoked = <<>>
                   /\ call.pc \in {"decode", "done"}
                   /\ call.pc = "done" =>
                         /\ call.ret.status = "err"
                         /\ call.ret.error.kind = "Unexpected"
                         /\ call.ret.error.fmt \in ParameterFormats
                         /\ Len(call.bound) < Declared(call)
                         /\ call.ret.error.arg = failed_on
                         /\ Len(call.bound) = Len(call.given) =>
                               call.ret.error.fmt = "missing expected parameter [{}]"
             /\ (call.pc = "done" /\ call.ret.status = "err"
                 /\ call.ret.error.fmt \in ParameterFormats) =>
                   /\ call.invoked = <<>>
                   /\ call.ret.error.kind = "Unexpected"
                   /\ Len(call.bound) < Declared(call)
                   /\ call.ret.error.arg = failed_on

\* a call of an arm with two arguments was given one value and has returned
\* the failure that names the second argument
C10_Witness ==
    \E c \in DOMAIN calls :
       /\ calls[c].pc = "done"
       /\ calls[c].arm # 0
       /\ Declared(calls[c]) = 2
       /\ Len(calls[c].given) = 1
       /\ calls[c].ret.status = "err"
       /\ calls[c].ret.error.fmt = "missing expected parameter [{}]"
       /\ calls[c].ret.error.arg = Arms[calls[c].arm].input_decoding[2].name

\* a call has returned because a value could not be received as the type
\* of its argument
C10_WitnessDecode ==
    \E c \in DOMAIN calls :
       /\ calls[c].pc = "done"
       /\ calls[c].ret.status = "err"
       /\ calls[c].ret.error.fmt = "failed to receive parameter [{}]: {e}"

====
